---- MODULE Spec2Model ----
(***************************************************************************)
(* Model of tools/http-api-docs/openapi.go: the OpenAPI generator of the   *)
(* IPFS RPC documentation.                                                 *)
(*                                                                         *)
(* Encoding conventions                                                    *)
(*   - a Go pointer / optional field is a sequence of length 0 (nil) or 1  *)
(*     (the pointee): None, Some(v);                                       *)
(*   - a Go string whose characters are read (a default value handed to    *)
(*     strconv) is a sequence of one-character strings;                    *)
(*   - an argument description is the sequence of its blank-separated      *)
(*     words; strings.Contains / strings.HasPrefix look for a word;        *)
(*   - a value of type `any` carries its dynamic type in a field k;        *)
(*   - descriptions of parameters and operations, operation ids and the    *)
(*     document's metadata are left out: no property below reads them.     *)
(***************************************************************************)
EXTENDS Integers, Sequences, FiniteSets, TLC

None == <<>>
Some(v) == <<v>>

---------------------------------------------------------------------------
(* Bounds of the model.                                                    *)

\* longest Arguments list of an endpoint
MaxArgs == 3
\* longest Options list of an endpoint
MaxOpts == 1
\* longest catalogue handed to Generate
MaxApi == 3
\* longest JSON array in an example response
MaxSeqLen == 2
\* deepest nesting of an example response
MaxDepth == 2

---------------------------------------------------------------------------
(* strconv, as called at openapi.go:76 and openapi.go:78.                  *)

BoolTrueTexts ==
  { <<"1">>, <<"t">>, <<"T">>, <<"T","R","U","E">>, <<"t","r","u","e">>, <<"T","r","u","e">> }

BoolFalseTexts ==
  { <<"0">>, <<"f">>, <<"F">>, <<"F","A","L","S","E">>, <<"f","a","l","s","e">>,
    <<"F","a","l","s","e">> }

\* strconv.ParseBool(s): [ok, val]
ParseBool(s) ==
  IF s \in BoolTrueTexts THEN [ok |-> TRUE, val |-> TRUE]
  ELSE IF s \in BoolFalseTexts THEN [ok |-> TRUE, val |-> FALSE]
  ELSE [ok |-> FALSE, val |-> FALSE]

Digits == {"0","1","2","3","4","5","6","7","8","9"}

DigitVal(c) ==
  CASE c = "0" -> 0 [] c = "1" -> 1 [] c = "2" -> 2 [] c = "3" -> 3 [] c = "4" -> 4
    [] c = "5" -> 5 [] c = "6" -> 6 [] c = "7" -> 7 [] c = "8" -> 8 [] c = "9" -> 9

\* the largest and smallest value of bitSize 32 (the ParseInt call's last argument)
MaxInt32 == 2147483647
MinInt32 == (-2147483647) - 1

\* The digit loop of ParseInt for a non-negative number: the value, or -1 once
\* it leaves the 32-bit signed range.
RECURSIVE AccPos(_, _, _)
AccPos(s, i, acc) ==
  IF i > Len(s) THEN acc
  ELSE IF acc > (MaxInt32 - DigitVal(s[i])) \div 10 THEN -1
  ELSE AccPos(s, i + 1, acc * 10 + DigitVal(s[i]))

\* The same for a number written with "-": the value, or 1 once out of range.
RECURSIVE AccNeg(_, _, _)
AccNeg(s, i, acc) ==
  IF i > Len(s) THEN acc
  ELSE IF acc < (MinInt32 + DigitVal(s[i]) + 9) \div 10 THEN 1
  ELSE AccNeg(s, i + 1, acc * 10 - DigitVal(s[i]))

\* strconv.ParseInt(s, 10, 32): [ok, val]
ParseInt(s) ==
  LET neg  == Len(s) > 0 /\ s[1] = "-"
      sgn  == Len(s) > 0 /\ s[1] \in {"+", "-"}
      body == IF sgn THEN SubSeq(s, 2, Len(s)) ELSE s
      syntaxOk == Len(body) > 0 /\ \A i \in 1..Len(body) : body[i] \in Digits
      v == IF ~syntaxOk THEN 0
           ELSE IF neg THEN AccNeg(body, 1, 0) ELSE AccPos(body, 1, 0)
      inRange == IF neg THEN v <= 0 ELSE v >= 0
  IN IF syntaxOk /\ inRange THEN [ok |-> TRUE, val |-> v]
     ELSE [ok |-> FALSE, val |-> 0]

---------------------------------------------------------------------------
(* strings.Contains / strings.HasPrefix on a description.                  *)

Contains(desc, word) == \E i \in 1..Len(desc) : desc[i] = word

HasPrefix(desc, word) == Len(desc) > 0 /\ desc[1] = word

---------------------------------------------------------------------------
(* openapi3.Schema                                                         *)

\* &openapi3.Schema{}: every field unset ("allow any")
EmptySchema ==
  [Type |-> None, Items |-> None, Properties |-> None, AdditionalProperties |-> None,
   MinItems |-> None, MaxItems |-> None, Default |-> None]

TypedSchema(t) == [EmptySchema EXCEPT !.Type = Some(t)]

---------------------------------------------------------------------------
(* Parameter Mapper                                                        *)

\* the switch on arg.Type of genParameterForArgument; "" stands for the
\* early `return nil` of the file case
SchemaTypeOfArg(type) ==
  CASE type = "bool" -> "boolean"
    [] type \in {"int", "uint", "int64"} -> "integer"
    [] type = "string" -> "string"
    [] type = "array" -> "array"
    [] type = "file" -> ""
    [] OTHER -> "string"

\* the value schema.WithDefault receives for a non-empty arg.Default
DefaultValue(t, text) ==
  CASE t = "boolean" ->
         IF ParseBool(text).ok THEN [k |-> "bool", b |-> ParseBool(text).val]
         ELSE [k |-> "string", s |-> text]
    [] t = "integer" ->
         IF ParseInt(text).ok THEN [k |-> "int", n |-> ParseInt(text).val]
         ELSE [k |-> "string", s |-> text]
    [] OTHER -> [k |-> "string", s |-> text]

IsDeprecatedDescription(desc) ==
  Contains(desc, "(DEPRECATED)") \/ HasPrefix(desc, "Removed,")

\* genParameterForArgument(arg, aliasToArg): None for the nil result
genParameterForArgument(arg, aliasToArg) ==
  LET t == SchemaTypeOfArg(arg.Type)
      s0 == TypedSchema(t)
      s1 == IF t = "array" THEN [s0 EXCEPT !.Items = Some(TypedSchema("string"))] ELSE s0
      schema == IF arg.Default /= <<>>
                THEN [s1 EXCEPT !.Default = Some(DefaultValue(t, arg.Default))]
                ELSE s1
  IN IF t = "" THEN None
     ELSE Some([Name |-> IF aliasToArg THEN "arg" ELSE arg.Name,
                In |-> "query",
                Schema |-> schema,
                Required |-> IF arg.Required THEN Some(TRUE) ELSE None,
                XExperimental |-> Contains(arg.Description, "(experimental)"),
                Deprecated |-> IF IsDeprecatedDescription(arg.Description)
                               THEN Some(TRUE) ELSE None,
                Explode |-> None])

\* the accumulators of genParameterForMultiArgument before its loop
MultiInit ==
  [params |-> <<>>, defaults |-> <<>>, anyDefault |-> FALSE,
   deprecated |-> FALSE, required |-> FALSE]

\* faulty variant: required becomes the OR of the arguments' required flags
MultiStepRequiredAny(acc, arg) ==
  LET p == genParameterForArgument(arg, FALSE)[1]
  IN [params |-> Append(acc.params, p),
      defaults |-> Append(acc.defaults, p.Schema.Default),
      anyDefault |-> acc.anyDefault \/ p.Schema.Default /= None,
      deprecated |-> acc.deprecated \/ (p.Deprecated /= None /\ p.Deprecated[1]),
      required |-> acc.required \/ (p.Required /= None /\ p.Required[1])]

\* faulty variant: anyDefault is overwritten by each argument, as required is
MultiStepAnyDefaultLast(acc, arg) ==
  LET p == genParameterForArgument(arg, FALSE)[1]
  IN [params |-> Append(acc.params, p),
      defaults |-> Append(acc.defaults, p.Schema.Default),
      anyDefault |-> p.Schema.Default /= None,
      deprecated |-> acc.deprecated \/ (p.Deprecated /= None /\ p.Deprecated[1]),
      required |-> p.Required /= None /\ p.Required[1]]

\* one iteration of the loop of genParameterForMultiArgument
MultiStep(acc, arg) ==
  LET p == genParameterForArgument(arg, FALSE)[1]
  IN [params |-> Append(acc.params, p),
      defaults |-> Append(acc.defaults, p.Schema.Default),
      anyDefault |-> acc.anyDefault \/ p.Schema.Default /= None,
      deprecated |-> acc.deprecated \/ (p.Deprecated /= None /\ p.Deprecated[1]),
      required |-> p.Required /= None /\ p.Required[1]]

RECURSIVE MultiLoop(_, _, _)
MultiLoop(args, i, acc) ==
  IF i > Len(args) THEN acc ELSE MultiLoop(args, i + 1, MultiStep(acc, args[i]))

\* genParameterForMultiArgument(args)
genParameterForMultiArgument(args) ==
  LET acc == MultiLoop(args, 1, MultiInit)
      num == Len(acc.params)
      s0 == [TypedSchema("array") EXCEPT !.MinItems = Some(num), !.MaxItems = Some(num),
                                         !.Items = Some(TypedSchema("string"))]
      schema == IF acc.anyDefault
                THEN [s0 EXCEPT !.Default = Some([k |-> "list", l |-> acc.defaults])]
                ELSE s0
  IN [Name |-> "arg",
      In |-> "query",
      Schema |-> schema,
      Required |-> IF acc.required THEN Some(TRUE) ELSE None,
      XExperimental |-> FALSE,
      Deprecated |-> IF acc.deprecated THEN Some(TRUE) ELSE None,
      Explode |-> Some(TRUE)]

---------------------------------------------------------------------------
(* Response Schema Inferencer                                              *)
(* A parsed JSON value x: [k |-> "string", s |-> text],                    *)
(* [k |-> "array", e |-> its elements], [k |-> "map", m |-> function from  *)
(* its keys], and [k |-> "float64", s |-> text] for a JSON number.         *)

\* the switch on the placeholder tag; "" stands for the default case
SchemaTypeOfTag(tag) ==
  CASE tag = "<bool>" -> "boolean"
    [] tag \in {"<int>", "<uint>", "<int32>", "<uint32>", "<int64>", "<uint64>",
                "<duration-ns>", "<timestamp>"} -> "integer"
    [] tag \in {"<float32>", "<float64>"} -> "number"
    [] tag \in {"<string>", "<peer-id>", "peer-id", "<cid-string>", "<multiaddr-string>"}
         -> "string"
    [] tag = "<array>" -> "array"
    [] tag = "<object>" -> "object"
    [] OTHER -> ""

\* `if itemType == nil { itemType = &openapi3.Schema{} }`
OrAny(s) == IF s = None THEN EmptySchema ELSE s[1]

\* faulty variant: the wildcard branch taken whenever "<string>" is among the keys
IsWildcardMapAnySize(m) == "<string>" \in DOMAIN m

\* the condition of the wildcard branch: firstKey is the key the range loop
\* meets first, "" for an empty map
IsWildcardMap(m) ==
  LET firstKey == IF DOMAIN m = {} THEN "" ELSE CHOOSE key \in DOMAIN m : TRUE
  IN Cardinality(DOMAIN m) = 1 /\ firstKey = "<string>"

\* faulty variant: the first element looked at whatever the length
ArrayItemInferredFromFirst(elems) == Len(elems) >= 1

\* whether the array branch looks at v[0]
ArrayItemInferred(elems) == Len(elems) = 1

\* genSchemaForResponse(x): None for the nil result
RECURSIVE genSchemaForResponse(_)
genSchemaForResponse(x) ==
  CASE x.k = "string" ->
         IF SchemaTypeOfTag(x.s) = "" THEN None ELSE Some(TypedSchema(SchemaTypeOfTag(x.s)))
    [] x.k = "array" ->
         LET itemType == IF ArrayItemInferred(x.e) THEN genSchemaForResponse(x.e[1]) ELSE None
         IN Some([TypedSchema("array") EXCEPT !.Items = Some(OrAny(itemType))])
    [] x.k = "map" ->
         IF IsWildcardMap(x.m)
         THEN LET itemType == genSchemaForResponse(x.m["<string>"])
              IN Some([TypedSchema("object") EXCEPT
                         !.AdditionalProperties = Some(OrAny(itemType))])
         ELSE LET ps == [key \in DOMAIN x.m |-> OrAny(genSchemaForResponse(x.m[key]))]
              IN Some([TypedSchema("object") EXCEPT !.Properties = Some(ps)])
    [] OTHER -> None

---------------------------------------------------------------------------
(* Endpoint Assembler                                                      *)
(* An endpoint's Response text is [raw |-> the text, parsed |-> what       *)
(* json.Unmarshal makes of it: None for an error].                         *)

\* the sentinel text (its backquotes left out)
PlainTextSentinel == "This endpoint returns a text/plain response body."

IsFile(arg) == arg.Type = "file"
IsNotFile(arg) == arg.Type /= "file"

\* p.ToParameterOrRef()
ToParameterOrRef(p) == [Parameter |-> p]

RECURSIVE SingleParams(_, _)
SingleParams(args, aliasToArg) ==
  IF args = <<>> THEN <<>>
  ELSE <<ToParameterOrRef(genParameterForArgument(Head(args), aliasToArg))>>
         \o SingleParams(Tail(args), aliasToArg)

\* faulty variant: a single argument is merged as well
UsesMultiArgumentFromOne(otherArgs) == Len(otherArgs) >= 1

\* whether GenerateEndpoint hands the arguments to genParameterForMultiArgument
UsesMultiArgument(otherArgs) == Len(otherArgs) > 1

\* op.Parameters as GenerateEndpoint fills it
OperationParameters(endp) ==
  LET otherArgs == SelectSeq(endp.Arguments, IsNotFile)
  IN (IF UsesMultiArgument(otherArgs)
      THEN <<ToParameterOrRef(Some(genParameterForMultiArgument(otherArgs)))>>
      ELSE SingleParams(otherArgs, Len(otherArgs) <= 1))
     \o SingleParams(endp.Options, FALSE)

\* op.RequestBody
OperationRequestBody(endp) ==
  LET bodyArgs == SelectSeq(endp.Arguments, IsFile)
  IN IF Len(bodyArgs) > 0
     THEN Some([Mime |-> "multipart/form-data",
                Property |-> bodyArgs[1].Name,
                Required |-> IF \E i \in 1..Len(bodyArgs) : bodyArgs[i].Required
                             THEN Some(TRUE) ELSE None])
     ELSE None

\* faulty variant: the response is built although json.Unmarshal failed
OperationResponsesDespiteError(endp) ==
  IF endp.Response.raw = PlainTextSentinel
  THEN Some([Code |-> "200", Mime |-> "text/plain", Example |-> None, Schema |-> None])
  ELSE IF endp.Response.raw /= ""
  THEN Some([Code |-> "200", Mime |-> "application/json",
             Example |-> endp.Response.parsed,
             Schema |-> IF endp.Response.parsed = None THEN None
                        ELSE genSchemaForResponse(endp.Response.parsed[1])])
  ELSE None

\* op.Responses: None when WithMapOfResponseOrRefValues is never called
OperationResponses(endp) ==
  IF endp.Response.raw = PlainTextSentinel
  THEN Some([Code |-> "200", Mime |-> "text/plain", Example |-> None, Schema |-> None])
  ELSE IF endp.Response.raw /= ""
  THEN IF endp.Response.parsed = None
       THEN None
       ELSE Some([Code |-> "200", Mime |-> "application/json",
                  Example |-> endp.Response.parsed,
                  Schema |-> genSchemaForResponse(endp.Response.parsed[1])])
  ELSE None

\* the Operation GenerateEndpoint hands to AddOperation
Operation(endp) ==
  [Parameters |-> OperationParameters(endp),
   RequestBody |-> OperationRequestBody(endp),
   Responses |-> OperationResponses(endp)]

\* ToParameterOrRef is called on the nil pointer genParameterForArgument
\* returns for a file-typed option: with a value receiver that call panics,
\* with a pointer receiver it yields an entry holding no parameter.
NilReceiverOutcomes(endp) ==
  IF \E i \in 1..Len(endp.Options) : genParameterForArgument(endp.Options[i], FALSE) = None
  THEN {"panic", "absent"}
  ELSE {"present"}

\* spec.AddOperation(POST, name, op) refuses a path that already holds a POST operation
AddOperationFails(registered, name) ==
  \E i \in 1..Len(registered) : registered[i].Name = name

\* faulty variant: the statuses iterated in another order
StatusOrderShuffled == <<"Deprecated", "Active", "Experimental", "Removed">>

\* faulty variant: the Removed status left out of the iteration
StatusOrderWithoutRemoved == <<"Active", "Experimental", "Deprecated">>

\* the cmds.Status list Generate iterates over
StatusOrder == <<"Active", "Experimental", "Deprecated", "Removed">>

\* InStatus(api, status)
InStatus(catalogue, status) ==
  LET Is(e) == e.Status = status IN SelectSeq(catalogue, Is)

---------------------------------------------------------------------------
(* State                                                                   *)

VARIABLES
  api,        \* the catalogue handed to GenerateOpenAPI
  pc,         \* where the call is
  si,         \* index into StatusOrder of Generate's outer loop
  endpoints,  \* InStatus(api, status) of the current status
  ei,         \* index into endpoints of Generate's inner loop
  paths,      \* the operations of myself.spec, in the order of their registration
  err,        \* whether Generate returned an error
  out         \* the document GenerateOpenAPI returned

vars == <<api, pc, si, endpoints, ei, paths, err, out>>

\* the entry of myself.spec for a registered endpoint
PathEntry(endp) == [Name |-> endp.Name, Status |-> endp.Status, op |-> Operation(endp)]

\* Generate: GenerateMetadata() starts a new document
GenerateMetadata ==
  /\ pc = "start"
  /\ paths' = <<>>
  /\ si' = 1
  /\ pc' = "status"
  /\ UNCHANGED <<api, endpoints, ei, err, out>>

\* Generate: one round of the loop over the statuses, up to its inner loop
NextStatus ==
  /\ pc = "status"
  /\ si <= Len(StatusOrder)
  /\ endpoints' = InStatus(api, StatusOrder[si])
  /\ IF Len(endpoints') = 0
     THEN /\ si' = si + 1
          /\ UNCHANGED <<pc, ei>>
     ELSE /\ pc' = "endpoint"
          /\ ei' = 1
          /\ UNCHANGED si
  /\ UNCHANGED <<api, paths, err, out>>

\* Generate: one round of the inner loop, a whole GenerateEndpoint call
GenerateEndpointStep ==
  /\ pc = "endpoint"
  /\ LET endp == endpoints[ei] IN
     \E outcome \in NilReceiverOutcomes(endp) :
       IF outcome = "panic"
       THEN /\ pc' = "panic"
            /\ UNCHANGED <<si, ei, paths, err>>
       ELSE IF AddOperationFails(paths, endp.Name)
       THEN /\ err' = TRUE
            /\ pc' = "returned"
            /\ UNCHANGED <<si, ei, paths>>
       ELSE /\ paths' = Append(paths, PathEntry(endp))
            /\ IF ei < Len(endpoints)
               THEN /\ ei' = ei + 1
                    /\ UNCHANGED <<pc, si>>
               ELSE /\ si' = si + 1
                    /\ pc' = "status"
                    /\ UNCHANGED ei
            /\ UNCHANGED err
  /\ UNCHANGED <<api, endpoints, out>>

\* Generate: `return nil` after the last status
GenerateReturn ==
  /\ pc = "status"
  /\ si > Len(StatusOrder)
  /\ err' = FALSE
  /\ pc' = "returned"
  /\ UNCHANGED <<api, si, endpoints, ei, paths, out>>

\* faulty variant: the error of Generate is ignored and the document marshaled
FatalIgnored ==
  /\ pc = "returned"
  /\ err
  /\ out' = Some(paths)
  /\ pc' = "emitted"
  /\ UNCHANGED <<api, si, endpoints, ei, paths, err>>

\* GenerateOpenAPI: log.Fatal(err)
Fatal ==
  /\ pc = "returned"
  /\ err
  /\ pc' = "fatal"
  /\ UNCHANGED <<api, si, endpoints, ei, paths, err, out>>

\* GenerateOpenAPI: formatter.spec.MarshalYAML()
Marshal ==
  /\ pc = "returned"
  /\ ~err
  /\ out' = Some(paths)
  /\ pc' = "emitted"
  /\ UNCHANGED <<api, si, endpoints, ei, paths, err>>

Next ==
  \/ GenerateMetadata
  \/ NextStatus
  \/ GenerateEndpointStep
  \/ GenerateReturn
  \/ Fatal
  \/ Marshal

\* one GenerateEndpoint call on a freshly initialised formatter
CallGenerateEndpoint ==
  /\ pc = "call"
  /\ \E outcome \in NilReceiverOutcomes(api[1]) :
       IF outcome = "panic"
       THEN /\ pc' = "panic"
            /\ UNCHANGED <<paths, err>>
       ELSE /\ paths' = <<PathEntry(api[1])>>
            /\ err' = AddOperationFails(<<>>, api[1].Name)
            /\ pc' = "returned"
  /\ UNCHANGED <<api, si, endpoints, ei, out>>

---------------------------------------------------------------------------
(* Inputs                                                                  *)

RECURSIVE SeqsOfLen(_, _)
SeqsOfLen(S, n) ==
  IF n = 0 THEN {<<>>}
  ELSE {Append(s, e) : s \in SeqsOfLen(S, n - 1), e \in S}

SeqsUpTo(S, n) == UNION {SeqsOfLen(S, m) : m \in 0..n}

NoResponse == [raw |-> "", parsed |-> None]

Names == {"/api/v0/add", "/api/v0/cat", "/api/v0/ls"}

Statuses == {"Active", "Experimental", "Deprecated", "Removed"}

\* endpoints that differ in name and status only
OrderEndpoints ==
  [Name : Names, Status : Statuses, Arguments : {<<>>}, Options : {<<>>},
   Response : {NoResponse}]

InitPipeline(catalogues) ==
  /\ api \in catalogues
  /\ pc = "start"
  /\ si = 1
  /\ endpoints = <<>>
  /\ ei = 1
  /\ paths = <<>>
  /\ err = FALSE
  /\ out = None

Init == InitPipeline(SeqsUpTo(OrderEndpoints, MaxApi))

Spec == Init /\ [][Next]_vars

\* a file argument and a string argument
FileArg ==
  [Name |-> "data", Type |-> "file", Default |-> <<>>, Description |-> <<"text">>,
   Required |-> TRUE]
PathArg ==
  [Name |-> "path", Type |-> "string", Default |-> <<>>, Description |-> <<"text">>,
   Required |-> TRUE]

\* response texts: the sentinel, the empty text, a text that is no JSON, and
\* the JSON texts 42, null and []
ResponseTexts ==
  { [raw |-> PlainTextSentinel, parsed |-> None],
    NoResponse,
    [raw |-> "{oops", parsed |-> None],
    [raw |-> "42", parsed |-> Some([k |-> "float64", s |-> "42"])],
    [raw |-> "[]", parsed |-> Some([k |-> "array", e |-> <<>>])] }

\* Active endpoints that differ in their response text; /api/v0/add takes a
\* file and a path
ResponseEndpoints ==
  { [Name |-> n, Status |-> "Active",
     Arguments |-> IF n = "/api/v0/add" THEN <<FileArg, PathArg>> ELSE <<>>,
     Options |-> <<>>, Response |-> r] : n \in {"/api/v0/add", "/api/v0/cat"}, r \in ResponseTexts }

InitResponse == InitPipeline(SeqsUpTo(ResponseEndpoints, MaxApi))

SpecResponse == InitResponse /\ [][Next]_vars

\* an endpoint that differs in its arguments and options only
ArgsEndpoint(arguments, options) ==
  [Name |-> "/api/v0/add", Status |-> "Active", Arguments |-> arguments,
   Options |-> options, Response |-> NoResponse]

InitCall(inputs) ==
  /\ api \in {<<e>> : e \in inputs}
  /\ pc = "call"
  /\ si = 1
  /\ endpoints = <<>>
  /\ ei = 1
  /\ paths = <<>>
  /\ err = FALSE
  /\ out = None

NextCall == CallGenerateEndpoint

\* arguments that differ in being a file, in being required and in what their
\* description says
MergeArgs ==
  [Name : {"a"}, Type : {"string", "file"}, Default : {<<>>},
   Description : {<<"text">>, <<"text", "(DEPRECATED)">>, <<"Removed,", "text">>},
   Required : BOOLEAN]

MergeOptions ==
  [Name : {"o"}, Type : {"string", "file"}, Default : {<<>>},
   Description : {<<"text">>}, Required : {FALSE}]

InitParams ==
  InitCall({ArgsEndpoint(a, o) : a \in SeqsUpTo(MergeArgs, MaxArgs),
                                 o \in SeqsUpTo(MergeOptions, MaxOpts)})

SpecParams == InitParams /\ [][NextCall]_vars

\* default texts: none, "true", "30" and 2^31
DefaultTexts ==
  {<<>>, <<"t","r","u","e">>, <<"3","0">>, <<"2","1","4","7","4","8","3","6","4","8">>}

\* arguments that differ in their type and default text
DefaultArgs ==
  [Name : {"a"}, Type : {"bool", "int", "string"}, Default : DefaultTexts,
   Description : {<<"text">>}, Required : {FALSE}]

InitDefaults == InitCall({ArgsEndpoint(a, <<>>) : a \in SeqsUpTo(DefaultArgs, MaxArgs)})

SpecDefaults == InitDefaults /\ [][NextCall]_vars

\* example values: a known tag, an unknown tag and a number at the leaves
Leaves ==
  { [k |-> "string", s |-> "<bool>"], [k |-> "string", s |-> "bogus"],
    [k |-> "float64", s |-> "42"] }

Keys == {"<string>", "Name"}

\* arrays of at most MaxSeqLen elements: a first element of Sub, then leaves
ArraysOver(Sub) ==
  {[k |-> "array", e |-> <<>>]} \cup
  {[k |-> "array", e |-> <<h>> \o t] : h \in Sub, t \in SeqsUpTo(Leaves, MaxSeqLen - 1)}

\* mappings over the keys of Keys: one value of Sub, leaves under the other keys
MapsOver(Sub) ==
  {[k |-> "map", m |-> <<>>]} \cup
  UNION {UNION {{[k |-> "map", m |-> [key \in K |-> IF key = dk THEN dv ELSE f[key]]] :
                   dv \in Sub, f \in [K -> Leaves]} : dk \in K} : K \in (SUBSET Keys) \ {{}}}

RECURSIVE Values(_)
Values(depth) ==
  IF depth = 0 THEN Leaves
  ELSE Leaves \cup ArraysOver(Values(depth - 1)) \cup MapsOver(Values(depth - 1))

\* an endpoint whose response text is the JSON text of x
ExampleEndpoint(x) ==
  [Name |-> "/api/v0/add", Status |-> "Active", Arguments |-> <<>>, Options |-> <<>>,
   Response |-> [raw |-> "(json)", parsed |-> Some(x)]]

InitInfer == InitCall({ExampleEndpoint(x) : x \in Values(MaxDepth)})

SpecInfer == InitInfer /\ [][NextCall]_vars

---------------------------------------------------------------------------
(* Properties of Generate and GenerateOpenAPI (specification Spec)         *)

Rank(status) == CHOOSE r \in 1..4 : <<"Active", "Experimental", "Deprecated", "Removed">>[r] = status

HasStatus(status, sq) == LET Is(e) == e.Status = status IN SelectSeq(sq, Is)

IsPrefix(a, b) == Len(a) <= Len(b) /\ \A i \in 1..Len(a) : a[i] = b[i]

PathEntries(sq) == [i \in 1..Len(sq) |-> PathEntry(sq[i])]

Finished == pc \in {"returned", "fatal", "emitted"}

\* the catalogue in the order the claim C1 describes, Removed endpoints last
StatusOrdered ==
  HasStatus("Active", api) \o HasStatus("Experimental", api)
    \o HasStatus("Deprecated", api) \o HasStatus("Removed", api)

\* the place of the first endpoint of sq whose name an earlier one has, 0 if none
FirstDuplicate(sq) ==
  LET dups == {k \in 1..Len(sq) : \E i \in 1..(k - 1) : sq[i].Name = sq[k].Name}
  IN IF dups = {} THEN 0 ELSE CHOOSE k \in dups : \A m \in dups : k <= m

\* C1: operations are registered in status-group order: no Experimental or
\* Deprecated operation is registered before an Active one, no Deprecated one
\* before an Experimental one, whatever the order of the catalogue; the
\* operations of one status are registered in their catalogue order.
C1_StatusGroupOrder ==
  /\ \A i, j \in 1..Len(paths) :
       (i < j /\ {paths[i].Status, paths[j].Status}
                   \subseteq {"Active", "Experimental", "Deprecated"})
         => Rank(paths[i].Status) <= Rank(paths[j].Status)
  /\ \A status \in {"Active", "Experimental", "Deprecated"} :
       IsPrefix(HasStatus(status, paths), PathEntries(HasStatus(status, api)))

\* the catalogue [Deprecated, Active, Experimental] of the spec, wholly registered
C1_Witness ==
  /\ pc = "emitted"
  /\ Len(api) = 3
  /\ <<api[1].Status, api[2].Status, api[3].Status>> = <<"Deprecated", "Active", "Experimental">>
  /\ <<paths[1].Status, paths[2].Status, paths[3].Status>> = <<"Active", "Experimental", "Deprecated">>

\* C2 as claimed: once Generate has finished, no operation is registered for
\* an endpoint whose status is Removed.
C2_RemovedNeverRegistered ==
  Finished => \A i \in 1..Len(paths) : paths[i].Status /= "Removed"

\* C2 amended: Removed endpoints are registered as well, after all others: once
\* Generate has finished without an error every Removed endpoint of the
\* catalogue has its operation registered, and only operations of Removed
\* endpoints follow it.
C2_RemovedRegisteredLast ==
  (Finished /\ ~err) =>
    \A k \in 1..Len(api) :
      api[k].Status = "Removed" =>
        \E i \in 1..Len(paths) :
          /\ paths[i] = PathEntry(api[k])
          /\ \A j \in i..Len(paths) : paths[j].Status = "Removed"

\* a Removed endpoint ahead of an Active one in the catalogue, both registered
C2_Witness ==
  /\ pc = "emitted"
  /\ Len(api) = 2
  /\ api[1].Status = "Removed"
  /\ api[2].Status = "Active"
  /\ Len(paths) = 2
  /\ paths[2].Status = "Removed"

\* C7: a failing registration aborts generation: Generate returns at the first
\* endpoint, in the status-ordered sequence, whose path is already registered;
\* exactly the endpoints before it are registered, none after it; and
\* GenerateOpenAPI then ends fatally without a document.
C7_FailureAborts ==
  LET k == FirstDuplicate(StatusOrdered)
  IN /\ err => /\ pc \in {"returned", "fatal"}
               /\ k > 0
               /\ paths = PathEntries(SubSeq(StatusOrdered, 1, k - 1))
               /\ out = None
     /\ (Finished /\ k > 0) => err
     /\ pc = "fatal" => err
     /\ out /= None => (~err /\ k = 0)

\* the first two endpoints collide, the third is never processed
C7_Witness ==
  /\ pc = "fatal"
  /\ Len(api) = 3
  /\ api[1].Status = "Active" /\ api[2].Status = "Active" /\ api[3].Status = "Deprecated"
  /\ api[1].Name = api[2].Name /\ api[3].Name /= api[1].Name
  /\ Len(paths) = 1
  /\ out = None

---------------------------------------------------------------------------
(* Properties of the response handling (specification SpecResponse)        *)

\* C8: response handling never fails generation. Every registered operation
\* has its parameters and request body; its response is absent for an empty
\* text and for a text that is no JSON, "200" text/plain without a schema for
\* the sentinel, and "200" application/json with the example and the inferred
\* schema (none when inference has no opinion) for a JSON text; Generate
\* returns an error only for a path registered twice and otherwise registers
\* every endpoint of the catalogue.
C8_ResponseNonFatal ==
  /\ \A i \in 1..Len(paths) :
       LET e == StatusOrdered[i]
           r == paths[i].op.Responses
       IN /\ paths[i].Name = e.Name
          /\ Len(paths[i].op.Parameters) = (IF e.Arguments = <<>> THEN 0 ELSE 1)
          /\ (paths[i].op.RequestBody /= None) = (e.Arguments /= <<>>)
          /\ CASE e.Response.raw = PlainTextSentinel ->
                    r = Some([Code |-> "200", Mime |-> "text/plain",
                              Example |-> None, Schema |-> None])
               [] e.Response.raw = "" -> r = None
               [] e.Response.raw \notin {"", PlainTextSentinel} /\ e.Response.parsed = None ->
                    r = None
               [] OTHER ->
                    /\ r /= None
                    /\ r[1].Code = "200"
                    /\ r[1].Mime = "application/json"
                    /\ r[1].Example = e.Response.parsed
                    /\ r[1].Schema = genSchemaForResponse(e.Response.parsed[1])
  /\ err => FirstDuplicate(StatusOrdered) > 0
  /\ pc = "emitted" => Len(paths) = Len(api)

\* an endpoint whose response is no JSON is registered without a response, and
\* the endpoint after it is registered with one
C8_Witness ==
  /\ pc = "emitted"
  /\ Len(api) = 2
  /\ api[1].Name = "/api/v0/add"
  /\ api[1].Response.raw = "{oops"
  /\ api[2].Response.raw = "[]"
  /\ Len(paths) = 2
  /\ paths[1].op.Responses = None
  /\ paths[1].op.RequestBody /= None
  /\ paths[2].op.Responses /= None
  /\ paths[2].op.Responses[1].Schema /= None

---------------------------------------------------------------------------
(* Properties of one GenerateEndpoint call (specifications SpecParams,     *)
(* SpecDefaults and SpecInfer)                                             *)

\* the non-file arguments of the endpoint
OtherArgs == SelectSeq(api[1].Arguments, IsNotFile)

\* the parameter list of the operation built
Params == paths[1].op.Parameters

\* the entries of Params that carry a merged parameter
Merged ==
  {i \in 1..Len(Params) :
     /\ Params[i].Parameter /= None
     /\ \/ Params[i].Parameter[1].Explode /= None
        \/ Params[i].Parameter[1].Schema.MinItems /= None
        \/ Params[i].Parameter[1].Schema.MaxItems /= None}

\* C3: with N > 1 non-file arguments the operation has one merged parameter,
\* named "arg", exploded, an array with MinItems = MaxItems = N; with N <= 1
\* it has no merged parameter.
C3_MergedItemCount ==
  pc = "returned" =>
    LET n == Len(OtherArgs)
    IN IF n > 1
       THEN /\ Merged = {1}
            /\ Params[1].Parameter[1].Name = "arg"
            /\ Params[1].Parameter[1].Explode = Some(TRUE)
            /\ Params[1].Parameter[1].Schema.Type = Some("array")
            /\ Params[1].Parameter[1].Schema.MinItems = Some(n)
            /\ Params[1].Parameter[1].Schema.MaxItems = Some(n)
       ELSE Merged = {}

\* three arguments, one of them a file: the other two are merged
C3_Witness ==
  /\ pc = "returned"
  /\ Len(api[1].Arguments) = 3
  /\ api[1].Arguments[2].Type = "file"
  /\ Len(OtherArgs) = 2
  /\ Params[1].Parameter[1].Schema.MinItems = Some(2)
  /\ Params[1].Parameter[1].Schema.MaxItems = Some(2)

\* C6: the merged parameter is required exactly when the last merged argument
\* is, whatever the earlier ones are; it is deprecated exactly when one of the
\* arguments' own parameters is.
C6_RequiredOfLast ==
  (pc = "returned" /\ Len(OtherArgs) > 1) =>
    LET p == Params[1].Parameter[1]
        last == OtherArgs[Len(OtherArgs)]
    IN /\ p.Required = (IF last.Required THEN Some(TRUE) ELSE None)
       /\ p.Deprecated =
            (IF \E i \in 1..Len(OtherArgs) :
                  genParameterForArgument(OtherArgs[i], FALSE)[1].Deprecated = Some(TRUE)
             THEN Some(TRUE) ELSE None)

\* [a required, b not required], a deprecated: not required, deprecated
C6_Witness ==
  /\ pc = "returned"
  /\ Len(OtherArgs) = 2
  /\ OtherArgs[1].Required /\ ~OtherArgs[2].Required
  /\ OtherArgs[1].Description = <<"Removed,", "text">>
  /\ OtherArgs[2].Description = <<"text">>
  /\ Params[1].Parameter[1].Required = None
  /\ Params[1].Parameter[1].Deprecated = Some(TRUE)

\* C10 as claimed: whatever the types of the arguments and options, the call
\* builds an operation whose parameter list holds one entry per option and at
\* most one, named "arg", for the non-file arguments, every entry carrying a
\* parameter located in the query.
C10_EveryEntryPresent ==
  pc \in {"returned", "panic"} =>
    /\ pc = "returned"
    /\ Len(Params) = Len(api[1].Options) + (IF Len(OtherArgs) = 0 THEN 0 ELSE 1)
    /\ \A i \in 1..Len(Params) :
         /\ Params[i].Parameter /= None
         /\ Params[i].Parameter[1].In = "query"
    /\ Len(OtherArgs) > 0 => Params[1].Parameter[1].Name = "arg"

\* whether strconv accepts the default text of the argument for its type
Parseable(arg) ==
  /\ arg.Default /= <<>>
  /\ CASE arg.Type = "bool" -> ParseBool(arg.Default).ok
       [] arg.Type \in {"int", "uint", "int64"} -> ParseInt(arg.Default).ok
       [] OTHER -> TRUE

\* the slot of the default list for an argument: absent without a default
\* text, else the parsed value, else the text itself
ExpectedSlot(arg) ==
  IF arg.Default = <<>> THEN None
  ELSE IF arg.Type = "bool" /\ ParseBool(arg.Default).ok
  THEN Some([k |-> "bool", b |-> ParseBool(arg.Default).val])
  ELSE IF arg.Type \in {"int", "uint", "int64"} /\ ParseInt(arg.Default).ok
  THEN Some([k |-> "int", n |-> ParseInt(arg.Default).val])
  ELSE Some([k |-> "string", s |-> arg.Default])

\* the merged schema's default is the list of the arguments' slots
HasDefaultList ==
  LET d == Params[1].Parameter[1].Schema.Default
  IN /\ d /= None
     /\ d[1].k = "list"
     /\ Len(d[1].l) = Len(OtherArgs)
     /\ \A i \in 1..Len(OtherArgs) : d[1].l[i] = ExpectedSlot(OtherArgs[i])

\* C9 as claimed: the merged schema has a default list exactly when an
\* argument has a default that parses for its type.
C9_DefaultIfParseable ==
  (pc = "returned" /\ Len(OtherArgs) > 1) =>
    IF \E i \in 1..Len(OtherArgs) : Parseable(OtherArgs[i])
    THEN HasDefaultList
    ELSE Params[1].Parameter[1].Schema.Default = None

\* C9 amended: the merged schema has a default list exactly when an argument
\* has a non-empty default text, whether it parses or not; slot i is absent
\* when argument i has no default text, its parsed value when the text parses
\* and the text itself when it does not.
C9_DefaultIfAnyText ==
  (pc = "returned" /\ Len(OtherArgs) > 1) =>
    IF \E i \in 1..Len(OtherArgs) : OtherArgs[i].Default /= <<>>
    THEN HasDefaultList
    ELSE Params[1].Parameter[1].Schema.Default = None

\* an int argument whose default 2147483648 does not parse and an argument
\* without default: the list holds the text and an absent slot
C9_Witness ==
  /\ pc = "returned"
  /\ Len(OtherArgs) = 2
  /\ OtherArgs[1].Type = "int"
  /\ OtherArgs[1].Default = <<"2","1","4","7","4","8","3","6","4","8">>
  /\ OtherArgs[2].Default = <<>>
  /\ ~Parseable(OtherArgs[1])
  /\ Params[1].Parameter[1].Schema.Default =
       Some([k |-> "list",
             l |-> <<Some([k |-> "string", s |-> OtherArgs[1].Default]), None>>])

\* the example value and the schema inferred for it
Example == api[1].Response.parsed[1]
Inferred == paths[1].op.Responses[1].Schema

\* infer(x), the unconstrained schema standing in for "no opinion"
InferOrAny(x) ==
  IF genSchemaForResponse(x) = None THEN EmptySchema ELSE genSchemaForResponse(x)[1]

\* C4: a mapping whose only key is "<string>" gives an object schema without
\* properties whose additional-properties schema is infer of the value; every
\* other mapping gives an object schema without additional properties and
\* with one property per key, infer of its value; the unconstrained schema
\* stands in where infer has no opinion.
C4_MappingInference ==
  (pc = "returned" /\ Example.k = "map") =>
    /\ Inferred /= None
    /\ Inferred[1].Type = Some("object")
    /\ Inferred[1].Items = None
    /\ IF DOMAIN Example.m = {"<string>"}
       THEN /\ Inferred[1].Properties = None
            /\ Inferred[1].AdditionalProperties = Some(InferOrAny(Example.m["<string>"]))
       ELSE /\ Inferred[1].AdditionalProperties = None
            /\ Inferred[1].Properties /= None
            /\ DOMAIN Inferred[1].Properties[1] = DOMAIN Example.m
            /\ \A key \in DOMAIN Example.m :
                 Inferred[1].Properties[1][key] = InferOrAny(Example.m[key])

\* a mapping with the keys "<string>" and "Name": a wildcard mapping under the
\* first, an unknown tag under the second
C4_Witness ==
  /\ pc = "returned"
  /\ Example.k = "map"
  /\ DOMAIN Example.m = {"<string>", "Name"}
  /\ Example.m["<string>"] = [k |-> "map", m |-> [key \in {"<string>"} |-> [k |-> "string", s |-> "<bool>"]]]
  /\ Example.m["Name"] = [k |-> "string", s |-> "bogus"]
  /\ Inferred[1].Properties[1]["Name"] = EmptySchema
  /\ Inferred[1].Properties[1]["<string>"].AdditionalProperties = Some(TypedSchema("boolean"))

\* C5 as claimed: the item schema of a sequence is infer of its first element
\* however many elements follow, unconstrained for an empty sequence or an
\* unrecognized first element.
C5_ItemsFromFirstElement ==
  (pc = "returned" /\ Example.k = "array") =>
    /\ Inferred /= None
    /\ Inferred[1].Type = Some("array")
    /\ Inferred[1].Items =
         Some(IF Len(Example.e) >= 1 THEN InferOrAny(Example.e[1]) ELSE EmptySchema)

\* C5 amended: the item schema of a sequence is infer of its element when the
\* sequence has exactly one element, and unconstrained when the sequence is
\* empty, has two or more elements, or its only element is unrecognized.
C5_ItemsFromSoleElement ==
  (pc = "returned" /\ Example.k = "array") =>
    /\ Inferred /= None
    /\ Inferred[1].Type = Some("array")
    /\ Inferred[1].Items =
         Some(IF Len(Example.e) = 1 THEN InferOrAny(Example.e[1]) ELSE EmptySchema)

\* two elements, the first a known tag: the items are unconstrained
C5_Witness ==
  /\ pc = "returned"
  /\ Example.k = "array"
  /\ Len(Example.e) = 2
  /\ Example.e[1] = [k |-> "string", s |-> "<bool>"]
  /\ Inferred[1].Items = Some(EmptySchema)

====
